---- MODULE Spec2Model ----
(***************************************************************************)
(* Model of the asynchronous news filter (main.py, time_measurement.py).   *)
(*                                                                         *)
(* One HTTP request is served: request_handler splits the 'urls' query     *)
(* parameter, get_articles_analysis_results spawns one process_article     *)
(* task per item inside a nursery, and every task walks through            *)
(* fetch -> get_sanitizer -> adapter -> measure_exec_time -> score.        *)
(*                                                                         *)
(* Conventions                                                             *)
(*  - Python None is the empty tuple <<>>, a present value v is <<v>>.     *)
(*  - Time is a discrete clock `now`; clock value k stands for the         *)
(*    interval [k, k+1).  A timer armed at s with delay d fires as soon as *)
(*    now - s >= d and the event loop is free; synchronous code keeps the  *)
(*    loop, so its step advances the clock by itself.                      *)
(*  - The Cyrillic prefix of the ArticleNotFound message is written in     *)
(*    Latin letters ("Statya na ").                                        *)
(*  - score is the integer part of the percentage.                         *)
(***************************************************************************)
EXTENDS Integers, Sequences, FiniteSets, TLC

VARIABLES pc, now, query, urls, phase, started, fetched, sanitized,
          tok_start, measured, article_info, task_exc, calls,
          session, results, batch_exc, response

vars == <<pc, now, query, urls, phase, started, fetched, sanitized,
          tok_start, measured, article_info, task_exc, calls,
          session, results, batch_exc, response>>

----------------------------------------------------------------------------
(* Bounds of the model *)

\* largest number of comma separated items in the 'urls' parameter
MaxUrls == 2

\* longest time the synchronous sanitize stage (get_sanitizer and the
\* adapter) can take
MaxSanitizeTime == 1

----------------------------------------------------------------------------
(* Values *)

None == <<>>
Some(v) == <<v>>

\* process_article(..., resp_timeout=5)
resp_timeout == 5
\* measure_exec_time(morph, text, to=3)
to == 3

OK == "OK"
FETCH_ERROR == "FETCH_ERROR"
PARSING_ERROR == "PARSING_ERROR"
TIMEOUT == "TIMEOUT"
ProcessingStatus == {OK, FETCH_ERROR, PARSING_ERROR, TIMEOUT}

\* keys of adapters.SANITIZERS
SANITIZERS == {"inosmi_ru", "dvmn_org"}

\* URLs of the test suite; the third one is the empty string, which
\* 'a,'.split(',') produces
UrlInosmi == "https://inosmi.ru"
UrlExample == "https://example.ru"
UrlEmpty == ""
Comma == ","
UrlAtoms == {UrlInosmi, UrlExample}

\* exceptions fetch can raise
ClientConnectionError == "ClientConnectionError"
ClientResponseError == "ClientResponseError"
ClientError == "ClientError"
FetchExceptions == {ClientConnectionError, ClientResponseError, ClientError}

\* is exception e an instance of class c (aiohttp's hierarchy: both
\* ClientConnectionError and ClientResponseError derive from ClientError)
IsInstance(e, c) == \/ e = c
                    \/ c = ClientError /\ e \in FetchExceptions

\* pages the transport can deliver: the article served by inosmi.ru and the
\* page of the test suite, served by every other site
Html1 == "<h1>Test article title</h1><article>vse autsayder pobeg</article>"
Html2 == "<h1>Test article title</h1><article>Some kind of text.</article>"
Htmls == {Html1, Html2}

\* the page fetch returns for url when it returns
PageAt(url) == IF url = UrlInosmi THEN Html1 ELSE Html2

charged_words == {"autsayder", "bankrotstvo"}

----------------------------------------------------------------------------
(* Pure functions *)

\* sep.join(s)
RECURSIVE Join(_, _)
Join(s, sep) ==
    IF Len(s) = 0 THEN ""
    ELSE IF Len(s) = 1 THEN s[1]
    ELSE s[1] \o sep \o Join(Tail(s), sep)

\* str.split(sep) on a string given as a sequence of tokens, a token being
\* either the separator or a maximal separator-free substring
RECURSIVE Split(_, _)
Split(s, sep) ==
    IF Len(s) = 0 THEN <<"">>
    ELSE LET rest == Split(Tail(s), sep)
         IN IF Head(s) = sep
            THEN <<"">> \o rest
            ELSE <<Head(s) \o rest[1]>> \o Tail(rest)

\* urlparse(url).netloc.split('.')
HostLabels(url) ==
    CASE url = UrlInosmi -> <<"inosmi", "ru">>
      [] url = UrlExample -> <<"example", "ru">>
      [] url = UrlEmpty -> <<"">>

\* variant: the registry is searched for the host itself, dots included
get_sanitizer_ByDomain(url) ==
    LET domain_name == Join(HostLabels(url), ".")
    IN IF domain_name \in SANITIZERS
       THEN [raised |-> FALSE, sanitizer |-> domain_name, msg |-> ""]
       ELSE [raised |-> TRUE, sanitizer |-> "",
             msg |-> "Statya na " \o domain_name]

\* get_sanitizer: the registered capability, or ArticleNotFound
get_sanitizer(url) ==
    LET domain_name == Join(HostLabels(url), ".")
        sanitizer_name == Join(HostLabels(url), "_")
    IN IF sanitizer_name \in SANITIZERS
       THEN [raised |-> FALSE, sanitizer |-> sanitizer_name, msg |-> ""]
       ELSE [raised |-> TRUE, sanitizer |-> "",
             msg |-> "Statya na " \o domain_name]

\* adapter(article_html, plaintext=True) -> (text, title)
adapter(html) ==
    CASE html = Html1 -> [text |-> "vse autsayder pobeg",
                          title |-> "Test article title"]
      [] html = Html2 -> [text |-> "Some kind of text.",
                          title |-> "Test article title"]

\* split_by_words(morph, text): the normalized tokens of the text
split_by_words(text) ==
    CASE text = "Some kind of text." -> <<"some", "kind", "text">>
      [] text = "vse autsayder pobeg" -> <<"vse", "autsayder", "pobeg">>

\* calculate_jaundice_rate(article_words, charged_words)
calculate_jaundice_rate(article_words, charged) ==
    IF Len(article_words) = 0 THEN 0
    ELSE (100 * Cardinality({k \in 1..Len(article_words) :
                                article_words[k] \in charged}))
            \div Len(article_words)

----------------------------------------------------------------------------
(* process_article: the records it builds *)

InitialInfo(url) ==
    [url |-> url, title |-> None, status |-> None, score |-> None,
     words_count |-> None, exec_time |-> None]

\* variant: the handler also records a zero exec_time
FetchErrorInfo_Timed(info) ==
    [info EXCEPT !.title = Some("URL does not exist"),
                 !.status = Some(FETCH_ERROR),
                 !.exec_time = Some(0)]

FetchErrorInfo(info) ==
    [info EXCEPT !.title = Some("URL does not exist"),
                 !.status = Some(FETCH_ERROR)]

\* variant: a fixed diagnostic instead of str(err)
ParsingErrorInfo_FixedTitle(info, err) ==
    [info EXCEPT !.title = Some("Parsing Error"),
                 !.status = Some(PARSING_ERROR)]

ParsingErrorInfo(info, err) ==
    [info EXCEPT !.title = Some(err), !.status = Some(PARSING_ERROR)]

\* variant: the handler also records the elapsed deadline as exec_time
OuterTimeoutInfo_Timed(info) ==
    [info EXCEPT !.title = Some("Timeout Error"), !.status = Some(TIMEOUT),
                 !.exec_time = Some(resp_timeout)]

OuterTimeoutInfo(info) ==
    [info EXCEPT !.title = Some("Timeout Error"), !.status = Some(TIMEOUT)]

\* variant: the timeout branch also fills score and words_count
TokenizeTimeoutInfo_Scored(info, title, exec_time) ==
    [info EXCEPT !.title = Some(title), !.status = Some(TIMEOUT),
                 !.score = Some(0), !.words_count = Some(0),
                 !.exec_time = Some(exec_time)]

\* variant: the timeout branch reports like the outer deadline handler
TokenizeTimeoutInfo_Outer(info, title, exec_time) ==
    [info EXCEPT !.title = Some("Timeout Error"), !.status = Some(TIMEOUT)]

TokenizeTimeoutInfo(info, title, exec_time) ==
    [info EXCEPT !.title = Some(title), !.status = Some(TIMEOUT),
                 !.exec_time = Some(exec_time)]

\* variant: words_count counts the charged words only
OkInfo_ChargedCount(info, title, words, exec_time) ==
    [info EXCEPT !.title = Some(title), !.status = Some(OK),
                 !.score = Some(calculate_jaundice_rate(words, charged_words)),
                 !.words_count =
                     Some(Cardinality({k \in 1..Len(words) :
                                          words[k] \in charged_words})),
                 !.exec_time = Some(exec_time)]

OkInfo(info, title, words, exec_time) ==
    [info EXCEPT !.title = Some(title), !.status = Some(OK),
                 !.score = Some(calculate_jaundice_rate(words, charged_words)),
                 !.words_count = Some(Len(words)),
                 !.exec_time = Some(exec_time)]

----------------------------------------------------------------------------
(* Inputs *)

RECURSIVE SeqsUpTo(_, _)
SeqsUpTo(S, n) ==
    IF n = 0 THEN {<<>>}
    ELSE LET shorter == SeqsUpTo(S, n - 1)
         IN shorter \cup {Append(s, x) : s \in shorter, x \in S}

\* the strings a client can send as the 'urls' parameter: no two adjacent
\* separator-free tokens (they would be one token), at most MaxUrls items
QueryStrings ==
    {s \in SeqsUpTo(UrlAtoms \cup {Comma}, 2 * MaxUrls - 1) :
        /\ \A k \in 1..(Len(s) - 1) : s[k] = Comma \/ s[k + 1] = Comma
        /\ Len(Split(s, Comma)) <= MaxUrls}

\* request.query.get('urls'): absent, or a string
Queries == {None} \cup {Some(s) : s \in QueryStrings}

----------------------------------------------------------------------------
(* State *)

Tasks == 1..Len(urls)

Terminal == {"returned", "raised", "cancelled"}

Active(i) == phase[i] \notin Terminal

Init ==
    /\ pc = "idle"
    /\ now = 0
    /\ query = None
    /\ urls = <<>>
    /\ phase = <<>>
    /\ started = <<>>
    /\ fetched = <<>>
    /\ sanitized = <<>>
    /\ tok_start = <<>>
    /\ measured = <<>>
    /\ article_info = <<>>
    /\ task_exc = <<>>
    /\ calls = <<>>
    /\ session = "none"
    /\ results = None
    /\ batch_exc = None
    /\ response = None

----------------------------------------------------------------------------
(* request_handler and get_articles_analysis_results: entry *)

\* variant: only a missing parameter is rejected
Falsy_OnlyMissing(q) == q = None

\* `not urls`
Falsy(q) == q = None \/ q[1] = <<>>

\* variant: the session block is left before the tasks are started
SpawnTasks_SessionClosed(urls_list) ==
    /\ urls' = urls_list
    /\ session' = "closed"
    /\ phase' = [i \in 1..Len(urls_list) |-> "fetching"]
    /\ started' = [i \in 1..Len(urls_list) |-> now]
    /\ fetched' = [i \in 1..Len(urls_list) |-> None]
    /\ sanitized' = [i \in 1..Len(urls_list) |-> None]
    /\ tok_start' = [i \in 1..Len(urls_list) |-> None]
    /\ measured' = [i \in 1..Len(urls_list) |-> None]
    /\ article_info' = [i \in 1..Len(urls_list) |-> InitialInfo(urls_list[i])]
    /\ task_exc' = [i \in 1..Len(urls_list) |-> None]
    /\ calls' = [i \in 1..Len(urls_list) |-> {"fetch"}]

\* get_articles_analysis_results up to the end of the nursery block: the
\* session is opened and one task per item is started
SpawnTasks(urls_list) ==
    /\ urls' = urls_list
    /\ session' = "open"
    /\ phase' = [i \in 1..Len(urls_list) |-> "fetching"]
    /\ started' = [i \in 1..Len(urls_list) |-> now]
    /\ fetched' = [i \in 1..Len(urls_list) |-> None]
    /\ sanitized' = [i \in 1..Len(urls_list) |-> None]
    /\ tok_start' = [i \in 1..Len(urls_list) |-> None]
    /\ measured' = [i \in 1..Len(urls_list) |-> None]
    /\ article_info' = [i \in 1..Len(urls_list) |-> InitialInfo(urls_list[i])]
    /\ task_exc' = [i \in 1..Len(urls_list) |-> None]
    /\ calls' = [i \in 1..Len(urls_list) |-> {"fetch"}]

BadRequest ==
    [status |-> 400, body |-> <<[error |-> "bad request"]>>]

request_handler(q) ==
    /\ pc = "idle"
    /\ query' = q
    /\ IF Falsy(q)
       THEN /\ response' = Some(BadRequest)
            /\ pc' = "responded"
            /\ UNCHANGED <<urls, session, phase, started, fetched,
                           sanitized, tok_start, measured, article_info,
                           task_exc, calls>>
       ELSE /\ SpawnTasks(Split(q[1], Comma))
            /\ pc' = "nursery"
            /\ UNCHANGED response
    /\ UNCHANGED <<now, results, batch_exc>>

----------------------------------------------------------------------------
(* measure_exec_time: the triple (exec_time, words, err) it yields *)

\* split_by_words returned in time
MeasuredWords(elapsed, text) ==
    [exec_time |-> elapsed, words |-> Some(split_by_words(text)),
     err |-> FALSE]

\* asyncio.TimeoutError was caught
MeasuredTimeout(elapsed) ==
    [exec_time |-> elapsed, words |-> None, err |-> TRUE]

\* any other exception, CancelledError included, reaches the finally clause
\* with article_words and error still None
MeasuredNothing(elapsed) ==
    [exec_time |-> elapsed, words |-> None, err |-> FALSE]

----------------------------------------------------------------------------
(* process_article: one task *)

\* variant: a task that returns takes the still running siblings down
Return_CancelSiblings(i, info) ==
    /\ article_info' = [article_info EXCEPT ![i] = info]
    /\ phase' = [j \in 1..Len(urls) |->
                    IF j = i THEN "returned"
                    ELSE IF phase[j] \in {"fetching", "tokenizing"}
                         THEN "cancelled"
                         ELSE phase[j]]
    /\ UNCHANGED task_exc

\* the task ends by returning its record
Return(i, info) ==
    /\ article_info' = [article_info EXCEPT ![i] = info]
    /\ phase' = [phase EXCEPT ![i] = "returned"]
    /\ UNCHANGED task_exc

\* what Task.cancel() does to a running sibling: a task suspended in fetch
\* ends cancelled; a task suspended in split_by_words is resumed by
\* measure_exec_time's finally clause with (elapsed, None, None), takes the
\* else branch and fails on len(None)
CancelledPhase(p) ==
    CASE p = "fetching" -> "cancelled"
      [] p = "tokenizing" -> "raised"
      [] OTHER -> p

\* the task ends with an exception process_article does not catch; the
\* nursery cancels every child that is still running
Raise(i, e) ==
    /\ phase' = [j \in Tasks |->
                    IF j = i THEN "raised" ELSE CancelledPhase(phase[j])]
    /\ task_exc' = [j \in Tasks |->
                       IF j = i THEN Some(e)
                       ELSE IF phase[j] = "tokenizing"
                            THEN Some("TypeError")
                            ELSE task_exc[j]]
    /\ measured' = [j \in Tasks |->
                       IF j # i /\ phase[j] = "tokenizing"
                       THEN Some(MeasuredNothing(now - tok_start[j][1]))
                       ELSE measured[j]]
    /\ calls' = [j \in Tasks |->
                    IF j # i /\ phase[j] = "tokenizing"
                    THEN calls[j] \cup {"calculate_jaundice_rate"}
                    ELSE calls[j]]
    /\ UNCHANGED article_info

\* except aiohttp.ClientConnectionError
CaughtAsFetchError(e) == IsInstance(e, ClientConnectionError)

\* fetch raises e before the outer deadline
FetchRaises(i, e) ==
    /\ pc = "nursery"
    /\ i \in Tasks
    /\ phase[i] = "fetching"
    /\ now - started[i] < resp_timeout
    /\ fetched' = [fetched EXCEPT ![i] = Some(e)]
    /\ IF CaughtAsFetchError(e)
       THEN /\ Return(i, FetchErrorInfo(article_info[i]))
            /\ UNCHANGED <<calls, measured>>
       ELSE Raise(i, e)
    /\ UNCHANGED <<pc, now, query, urls, started, sanitized, tok_start,
                   session, results, batch_exc, response>>

\* variant: the deadline is compared with the clock when the block is left
OuterExpiredOnExit_Checked(start, end) == end - start >= resp_timeout

\* leaving `async with timeout(resp_timeout)` at time end: TimeoutError is
\* raised only if the timer callback has cancelled the task, and the
\* callback cannot run between the return of fetch and the end of the
\* block, because get_sanitizer never suspends
OuterExpiredOnExit(start, end) == FALSE

\* fetch returns html before the outer deadline; get_sanitizer, the adapter
\* and the entry of measure_exec_time follow without suspension, they keep
\* the event loop for d units of time
FetchReturns(i, html, d) ==
    /\ pc = "nursery"
    /\ i \in Tasks
    /\ phase[i] = "fetching"
    /\ now - started[i] < resp_timeout
    /\ html = PageAt(urls[i])
    /\ fetched' = [fetched EXCEPT ![i] = Some(html)]
    /\ now' = now + d
    /\ LET found == get_sanitizer(urls[i])
       IN IF found.raised
          THEN /\ Return(i, ParsingErrorInfo(article_info[i], found.msg))
               /\ calls' = [calls EXCEPT ![i] = @ \cup {"get_sanitizer"}]
               /\ UNCHANGED <<sanitized, tok_start>>
          ELSE IF OuterExpiredOnExit(started[i], now + d)
          THEN /\ Return(i, OuterTimeoutInfo(article_info[i]))
               /\ calls' = [calls EXCEPT ![i] = @ \cup {"get_sanitizer"}]
               /\ UNCHANGED <<sanitized, tok_start>>
          ELSE /\ sanitized' = [sanitized EXCEPT ![i] = Some(adapter(html))]
               /\ tok_start' = [tok_start EXCEPT ![i] = Some(now + d)]
               /\ phase' = [phase EXCEPT ![i] = "tokenizing"]
               /\ calls' = [calls EXCEPT ![i] =
                              @ \cup {"get_sanitizer", "adapter",
                                      "split_by_words"}]
               /\ UNCHANGED <<article_info, task_exc>>
    /\ UNCHANGED <<pc, query, urls, started, measured, session, results,
                   batch_exc, response>>

\* variant: the outer deadline stays armed while the task is tokenizing
OuterDeadline_Nested(i) ==
    /\ pc = "nursery"
    /\ i \in Tasks
    /\ phase[i] \in {"fetching", "tokenizing"}
    /\ now - started[i] >= resp_timeout
    /\ article_info' = [article_info EXCEPT
                           ![i] = OuterTimeoutInfo(article_info[i])]
    /\ phase' = [phase EXCEPT ![i] = "returned"]
    /\ UNCHANGED <<pc, now, query, urls, started, fetched, sanitized,
                   tok_start, measured, task_exc, calls, session, results,
                   batch_exc, response>>

\* timeout(resp_timeout) expires while fetch is suspended
OuterDeadline(i) ==
    /\ pc = "nursery"
    /\ i \in Tasks
    /\ phase[i] = "fetching"
    /\ now - started[i] >= resp_timeout
    /\ Return(i, OuterTimeoutInfo(article_info[i]))
    /\ UNCHANGED <<pc, now, query, urls, started, fetched, sanitized,
                   tok_start, measured, calls, session, results, batch_exc,
                   response>>

\* the body of `async with measure_exec_time(...) as (exec_time, words, err)`
MeasuredInfo(info, title, m) ==
    IF m.err
    THEN TokenizeTimeoutInfo(info, title, m.exec_time)
    ELSE OkInfo(info, title, m.words[1], m.exec_time)

\* split_by_words returns before timeout(to) expires
TokenizeReturns(i) ==
    /\ pc = "nursery"
    /\ i \in Tasks
    /\ phase[i] = "tokenizing"
    /\ now - tok_start[i][1] < to
    /\ LET m == MeasuredWords(now - tok_start[i][1], sanitized[i][1].text)
       IN /\ measured' = [measured EXCEPT ![i] = Some(m)]
          /\ Return(i, MeasuredInfo(article_info[i], sanitized[i][1].title, m))
          /\ calls' = [calls EXCEPT ![i] =
                         IF m.err THEN @
                         ELSE @ \cup {"calculate_jaundice_rate"}]
    /\ UNCHANGED <<pc, now, query, urls, started, fetched, sanitized,
                   tok_start, session, results, batch_exc, response>>

\* variant: the tokenize timer never fires
TokenizeDeadline_Never(i) ==
    /\ FALSE
    /\ UNCHANGED vars

\* timeout(to) expires while split_by_words is suspended
TokenizeDeadline(i) ==
    /\ pc = "nursery"
    /\ i \in Tasks
    /\ phase[i] = "tokenizing"
    /\ now - tok_start[i][1] >= to
    /\ LET m == MeasuredTimeout(now - tok_start[i][1])
       IN /\ measured' = [measured EXCEPT ![i] = Some(m)]
          /\ Return(i, MeasuredInfo(article_info[i], sanitized[i][1].title, m))
          /\ calls' = [calls EXCEPT ![i] =
                         IF m.err THEN @
                         ELSE @ \cup {"calculate_jaundice_rate"}]
    /\ UNCHANGED <<pc, now, query, urls, started, fetched, sanitized,
                   tok_start, session, results, batch_exc, response>>

\* the timer the task is currently running under has expired
TimerDue(i) ==
    \/ phase[i] = "fetching" /\ now - started[i] >= resp_timeout
    \/ phase[i] = "tokenizing" /\ now - tok_start[i][1] >= to

\* time passes while some task is suspended and no timer is due
Tick ==
    /\ pc = "nursery"
    /\ \E i \in Tasks : Active(i)
    /\ \A i \in Tasks : ~TimerDue(i)
    /\ now' = now + 1
    /\ UNCHANGED <<pc, query, urls, phase, started, fetched, sanitized,
                   tok_start, measured, article_info, task_exc, calls,
                   session, results, batch_exc, response>>

----------------------------------------------------------------------------
(* get_articles_analysis_results: leaving the nursery *)

\* variant: the nursery block is left without waiting for the children
NurseryDone_NoWait == TRUE

\* Nursery.__aexit__ returns once no child is running
NurseryDone == \A i \in Tasks : ~Active(i)

\* variant: exceptions of the children are not looked at
Failed_Ignored == {}

Failed == {i \in Tasks : phase[i] = "raised"}

\* the orders in which `for task in done` can visit the set of tasks
Orders == {p \in [Tasks -> Tasks] : \A a, b \in Tasks : a # b => p[a] # p[b]}

\* variant: the records are keyed by url, a later duplicate is dropped
Gather_ByUrl(order) ==
    LET full == [k \in Tasks |-> article_info[order[k]]]
        keep == {k \in Tasks : \A k2 \in 1..(k - 1) : full[k2].url # full[k].url}
    IN [n \in 1..Cardinality(keep) |->
           full[CHOOSE k \in keep : Cardinality({k2 \in keep : k2 <= k}) = n]]

\* [task.result() for task in done]
Gather(order) == [k \in Tasks |-> article_info[order[k]]]

\* prepare_response
response_fields == {"status", "url", "score", "words_count"}

prepare_response(data) ==
    [k \in 1..Len(data) |->
        [key \in response_fields |-> data[k][key]]]

\* variant: the MultiError is re-raised as it is
NurseryError_Wrapped == Some("MultiError")

\* create_handy_nursery: a MultiError of one exception is unwrapped
NurseryError ==
    IF Cardinality(Failed) = 1
    THEN task_exc[CHOOSE i \in Failed : TRUE]
    ELSE Some("MultiError")

\* no child raised: the nursery and the session are left, asyncio.wait
\* finds every task done, the records are gathered and the handler answers
BatchReturns(order) ==
    /\ pc = "nursery"
    /\ NurseryDone
    /\ Failed = {}
    /\ session' = "closed"
    /\ results' = Some(Gather(order))
    /\ response' = Some([status |-> 200,
                         body |-> prepare_response(Gather(order))])
    /\ pc' = "responded"
    /\ UNCHANGED <<now, query, urls, phase, started, fetched, sanitized,
                   tok_start, measured, article_info, task_exc, calls,
                   batch_exc>>

\* some child raised: the nursery re-raises, the session is closed on the
\* way out and the exception leaves get_articles_analysis_results and
\* request_handler
BatchRaises ==
    /\ pc = "nursery"
    /\ NurseryDone
    /\ Failed # {}
    /\ session' = "closed"
    /\ batch_exc' = NurseryError
    /\ pc' = "raised"
    /\ UNCHANGED <<now, query, urls, phase, started, fetched, sanitized,
                   tok_start, measured, article_info, task_exc, calls,
                   results, response>>

----------------------------------------------------------------------------

Next ==
    \/ \E q \in Queries : request_handler(q)
    \/ \E i \in Tasks, e \in FetchExceptions : FetchRaises(i, e)
    \/ \E i \in Tasks, html \in Htmls, d \in 0..MaxSanitizeTime :
          FetchReturns(i, html, d)
    \/ \E i \in Tasks : OuterDeadline(i)
    \/ \E i \in Tasks : TokenizeReturns(i)
    \/ \E i \in Tasks : TokenizeDeadline(i)
    \/ Tick
    \/ \E order \in Orders : BatchReturns(order)
    \/ BatchRaises

Spec == Init /\ [][Next]_vars

\* the event loop keeps running what is ready: time passes, an expired
\* timer cancels its task, and the nursery is left once all children are
\* done.  Nothing obliges fetch or split_by_words to answer.
Fairness ==
    WF_vars(\/ Tick
            \/ \E i \in Tasks : OuterDeadline(i)
            \/ \E i \in Tasks : TokenizeDeadline(i)
            \/ \E order \in Orders : BatchReturns(order)
            \/ BatchRaises)

LiveSpec == Spec /\ Fairness

TypeOK ==
    /\ pc \in {"idle", "nursery", "responded", "raised"}
    /\ now \in 0..(resp_timeout + MaxSanitizeTime + to)
    /\ session \in {"none", "open", "closed"}
    /\ \A i \in Tasks : phase[i] \in {"fetching", "tokenizing"} \cup Terminal

----------------------------------------------------------------------------
(* Properties *)

StatusOf(i) == article_info[i].status

\* the three per-URL failure statuses
FailureStatuses == {Some(FETCH_ERROR), Some(PARSING_ERROR), Some(TIMEOUT)}

\* the task ended on the outer deadline
OuterTimedOut(i) ==
    /\ phase[i] = "returned"
    /\ StatusOf(i) = Some(TIMEOUT)
    /\ article_info[i].exec_time = None

\* the instant at which a task that went through the tokenizer ended
EndOfTokenizing(i) == tok_start[i][1] + measured[i][1].exec_time

\* C1: when the batch is over and every one of its N >= 1 tasks has returned
\* a record, get_articles_analysis_results has returned a list of exactly N
\* records, which is the list of the tasks' records in some order, each
\* record carrying the url its task was started with.
C1_OneResultPerUrl ==
    (/\ pc \in {"responded", "raised"}
     /\ Len(urls) > 0
     /\ \A i \in Tasks : phase[i] = "returned")
    => /\ results # None
       /\ Len(results[1]) = Len(urls)
       /\ \E p \in Orders :
             \A k \in Tasks : /\ results[1][k] = article_info[p[k]]
                              /\ results[1][k].url = urls[p[k]]

\* a batch of two equal urls has returned two records, the second task
\* having ended before the first
C1_Witness ==
    /\ pc = "responded"
    /\ Len(urls) = 2
    /\ urls[1] = urls[2]
    /\ results # None
    /\ Len(results[1]) = 2
    /\ OuterTimedOut(1)
    /\ StatusOf(2) = Some(OK)
    /\ EndOfTokenizing(2) < started[1] + resp_timeout

\* C2: once a task has ended with an exception, the batch call never
\* returns: no list of results and no response exists, and when the call is
\* over it has raised.
C2_FailFast ==
    (\E i \in Tasks : phase[i] = "raised")
    => /\ results = None
       /\ response = None
       /\ pc \in {"nursery", "raised"}
       /\ pc = "raised" => batch_exc # None

\* the call has raised although a sibling had already returned its record
C2_Witness ==
    /\ pc = "raised"
    /\ batch_exc # None
    /\ \E i, j \in Tasks : /\ phase[i] = "raised"
                           /\ phase[j] = "returned"
                           /\ StatusOf(j) = Some(OK)

\* the record process_article builds from the answers the task itself got
\* from fetch (f) and from measure_exec_time (m), with no sibling around
AloneRecord(url, f, m) ==
    IF f = None THEN OuterTimeoutInfo(InitialInfo(url))
    ELSE IF f[1] \in FetchExceptions THEN FetchErrorInfo(InitialInfo(url))
    ELSE IF get_sanitizer(url).raised
         THEN ParsingErrorInfo(InitialInfo(url), get_sanitizer(url).msg)
    ELSE MeasuredInfo(InitialInfo(url), adapter(f[1]).title, m[1])

C3_RecordsIndependent ==
    /\ \A j \in Tasks :
          phase[j] = "returned"
          => article_info[j] = AloneRecord(urls[j], fetched[j], measured[j])
    /\ (pc = "responded" /\ results # None)
       => \A j \in Tasks :
             /\ phase[j] = "returned"
             /\ \E k \in 1..Len(results[1]) : results[1][k] = article_info[j]

C3_NoSiblingTouched ==
    \A i \in Tasks :
        (/\ Active(i)
         /\ phase'[i] = "returned"
         /\ article_info'[i].status \in FailureStatuses)
        => \A j \in Tasks \ {i} : /\ phase'[j] = phase[j]
                                  /\ article_info'[j] = article_info[j]
                                  /\ task_exc'[j] = task_exc[j]

\* C3: a step in which a task returns a FETCH_ERROR, PARSING_ERROR or
\* TIMEOUT record (an expired deadline included) leaves the phase, the
\* record and the exception of every sibling unchanged; every returned
\* record equals the one the task builds from its own answers alone, and a
\* returned batch holds the record of every task.
C3_FailureIsolated ==
    []C3_RecordsIndependent /\ [][C3_NoSiblingTouched]_vars

\* the first task hit the outer deadline, the second one finished its
\* tokenizing after that and both records were returned
C3_Witness ==
    /\ pc = "responded"
    /\ Len(urls) = 2
    /\ OuterTimedOut(1)
    /\ StatusOf(2) = Some(OK)
    /\ EndOfTokenizing(2) > started[1] + resp_timeout
    /\ \E k \in 1..2 : results[1][k] = article_info[2]

\* C4: every record returned by process_article has one of the four
\* statuses, and score and words_count are both present exactly when the
\* status is OK.
C4_StatusClosed ==
    \A i \in Tasks :
        phase[i] = "returned"
        => /\ StatusOf(i) \in {Some(st) : st \in ProcessingStatus}
           /\ (article_info[i].score # None /\ article_info[i].words_count # None)
              <=> StatusOf(i) = Some(OK)

\* one task returned OK and another one returned the tokenize TIMEOUT
C4_Witness ==
    \E i, j \in Tasks :
        /\ phase[i] = "returned" /\ StatusOf(i) = Some(OK)
        /\ article_info[i].score # None
        /\ phase[j] = "returned" /\ StatusOf(j) = Some(TIMEOUT)
        /\ article_info[j].exec_time # None


\* C5: every exception raised by fetch, the HTTP status error and the
\* generic client error included, ends the task with a FETCH_ERROR record.
C5_AnyFetchExceptionCollapses ==
    \A i \in Tasks :
        (fetched[i] # None /\ fetched[i][1] \in FetchExceptions)
        => /\ phase[i] = "returned"
           /\ StatusOf(i) = Some(FETCH_ERROR)

\* the record of a failed fetch
FetchErrorRecord(url) ==
    [url |-> url, title |-> Some("URL does not exist"),
     status |-> Some(FETCH_ERROR), score |-> None, words_count |-> None,
     exec_time |-> None]

\* C6: a task whose fetch raised a connection error has returned the
\* FETCH_ERROR record with title 'URL does not exist', its url and no
\* score, words_count or exec_time, and has called neither get_sanitizer
\* nor the tokenizer.
C6_ConnectionError ==
    \A i \in Tasks :
        fetched[i] = Some(ClientConnectionError)
        => /\ phase[i] = "returned"
           /\ article_info[i] = FetchErrorRecord(urls[i])
           /\ calls[i] = {"fetch"}
           /\ sanitized[i] = None
           /\ measured[i] = None

C6_Witness ==
    \E i \in Tasks :
        /\ fetched[i] = Some(ClientConnectionError)
        /\ phase[i] = "returned"
        /\ article_info[i].url = UrlInosmi
        /\ StatusOf(i) = Some(FETCH_ERROR)

\* the record of an expired outer deadline
OuterTimeoutRecord(url) ==
    [url |-> url, title |-> Some("Timeout Error"), status |-> Some(TIMEOUT),
     score |-> None, words_count |-> None, exec_time |-> None]

C7_DeadlineStep ==
    \A i \in Tasks :
        (/\ phase[i] = "fetching"
         /\ now - started[i] >= resp_timeout
         /\ phase'[i] # "fetching")
        => /\ phase'[i] = "returned"
           /\ fetched'[i] = None
           /\ article_info'[i] = OuterTimeoutRecord(urls[i])

C7_DeadlineState ==
    \A i \in Tasks :
        /\ (phase[i] = "returned" /\ fetched[i] = None)
           => /\ article_info[i] = OuterTimeoutRecord(urls[i])
              /\ calls[i] = {"fetch"}
              /\ now - started[i] >= resp_timeout

\* C7: a fetch still pending when resp_timeout has elapsed is never waited
\* for any longer: the next step of the task returns the TIMEOUT record
\* with title 'Timeout Error' and no score, words_count or exec_time, and
\* the fetch delivers nothing afterwards.
C7_FetchDeadline == []C7_DeadlineState /\ [][C7_DeadlineStep]_vars

C7_Witness ==
    \E i \in Tasks :
        /\ phase[i] = "returned"
        /\ fetched[i] = None
        /\ now - started[i] = resp_timeout
        /\ article_info[i] = OuterTimeoutRecord(UrlInosmi)

\* C8: a task whose fetch returned a page but whose site key is not a key
\* of SANITIZERS has returned the PARSING_ERROR record whose title is the
\* ArticleNotFound message, with no score, words_count or exec_time, and
\* has not called the adapter or the tokenizer.
C8_NoSanitizer ==
    \A i \in Tasks :
        (/\ fetched[i] # None
         /\ fetched[i][1] \in Htmls
         /\ Join(HostLabels(urls[i]), "_") \notin SANITIZERS)
        => /\ phase[i] = "returned"
           /\ article_info[i] =
                 [url |-> urls[i],
                  title |-> Some("Statya na " \o Join(HostLabels(urls[i]), ".")),
                  status |-> Some(PARSING_ERROR), score |-> None,
                  words_count |-> None, exec_time |-> None]
           /\ calls[i] = {"fetch", "get_sanitizer"}
           /\ measured[i] = None

C8_Witness ==
    \E i \in Tasks :
        /\ fetched[i] = Some(Html2)
        /\ urls[i] = UrlExample
        /\ phase[i] = "returned"
        /\ article_info[i].title = Some("Statya na example.ru")
        /\ StatusOf(i) = Some(PARSING_ERROR)

\* C9: a task whose tokenizer returned its words within the tokenize
\* deadline has returned an OK record: title is the sanitizer's title,
\* words_count the number of words, score the scorer's value for these
\* words and the charged words, exec_time the measured time.
C9_Success ==
    \A i \in Tasks :
        (/\ phase[i] = "returned"
         /\ measured[i] # None
         /\ measured[i][1].words # None)
        => LET page == adapter(fetched[i][1])
               words == split_by_words(page.text)
           IN /\ measured[i][1].words = Some(words)
              /\ measured[i][1].exec_time < to
              /\ article_info[i] =
                    [url |-> urls[i], title |-> Some(page.title),
                     status |-> Some(OK),
                     score |-> Some(calculate_jaundice_rate(words,
                                                            charged_words)),
                     words_count |-> Some(Len(words)),
                     exec_time |-> Some(measured[i][1].exec_time)]

\* the inosmi.ru article was scored: three words, one of them charged
C9_Witness ==
    \E i \in Tasks :
        /\ phase[i] = "returned"
        /\ StatusOf(i) = Some(OK)
        /\ urls[i] = UrlInosmi
        /\ article_info[i].title = Some("Test article title")
        /\ article_info[i].words_count = Some(3)
        /\ article_info[i].score = Some(33)
        /\ article_info[i].exec_time = Some(2)

\* C10: a task whose tokenizer ran into the tokenize deadline did not fail:
\* it has returned a TIMEOUT record whose title is the sanitizer's title,
\* whose exec_time is the measured time and whose score and words_count
\* are absent, and the scorer was not called.
C10_TokenizeTimeout ==
    \A i \in Tasks :
        (measured[i] # None /\ measured[i][1].err)
        => /\ phase[i] = "returned"
           /\ task_exc[i] = None
           /\ article_info[i] =
                 [url |-> urls[i],
                  title |-> Some(adapter(fetched[i][1]).title),
                  status |-> Some(TIMEOUT), score |-> None,
                  words_count |-> None,
                  exec_time |-> Some(measured[i][1].exec_time)]
           /\ article_info[i].title # Some("Timeout Error")
           /\ measured[i][1].exec_time >= to
           /\ "calculate_jaundice_rate" \notin calls[i]

C10_Witness ==
    \E i \in Tasks :
        /\ measured[i] # None
        /\ measured[i][1].err
        /\ phase[i] = "returned"
        /\ StatusOf(i) = Some(TIMEOUT)
        /\ article_info[i].title = Some("Test article title")
        /\ article_info[i].exec_time = Some(to)


\* the task went through measure_exec_time
ReachedTokenizing(i) == tok_start[i] # None

\* C11: in every returned record exec_time is present exactly when the task
\* reached the tokenizing stage, that is for OK and for the TIMEOUT of the
\* tokenize deadline; it is absent for FETCH_ERROR, PARSING_ERROR and the
\* TIMEOUT of the outer deadline.
C11_ExecTimeIffTokenized ==
    \A i \in Tasks :
        phase[i] = "returned"
        => /\ article_info[i].exec_time # None <=> ReachedTokenizing(i)
           /\ ReachedTokenizing(i)
              <=> \/ StatusOf(i) = Some(OK)
                  \/ StatusOf(i) = Some(TIMEOUT) /\ measured[i] # None
                                                 /\ measured[i][1].err
           /\ StatusOf(i) \in {Some(FETCH_ERROR), Some(PARSING_ERROR)}
              => article_info[i].exec_time = None
           /\ (StatusOf(i) = Some(TIMEOUT) /\ fetched[i] = None)
              => article_info[i].exec_time = None

\* a batch returned one record per kind of TIMEOUT
C11_Witness ==
    /\ pc = "responded"
    /\ \E i, j \in Tasks :
          /\ StatusOf(i) = Some(TIMEOUT) /\ fetched[i] = None
          /\ article_info[i].exec_time = None
          /\ StatusOf(j) = Some(TIMEOUT) /\ ReachedTokenizing(j)
          /\ article_info[j].exec_time # None

\* C12: whenever get_sanitizer was called for a url, it raised
\* ArticleNotFound with the message naming the host if the site key (host
\* labels joined by '_') is not a key of SANITIZERS, and returned the
\* capability, without raising, if the key is registered.
C12_Resolution ==
    \A i \in Tasks :
        "get_sanitizer" \in calls[i]
        => /\ IF Join(HostLabels(urls[i]), "_") \in SANITIZERS
              THEN /\ sanitized[i] # None
                   /\ "adapter" \in calls[i]
                   /\ StatusOf(i) # Some(PARSING_ERROR)
              ELSE /\ sanitized[i] = None
                   /\ StatusOf(i) = Some(PARSING_ERROR)
                   /\ article_info[i].title =
                         Some("Statya na " \o Join(HostLabels(urls[i]), "."))
           /\ urls[i] = UrlInosmi => sanitized[i] # None
           /\ urls[i] = UrlExample
              => article_info[i].title = Some("Statya na example.ru")
           /\ urls[i] = UrlEmpty
              => article_info[i].title = Some("Statya na ")

\* one batch resolved inosmi.ru and failed to resolve example.ru
C12_Witness ==
    \E i, j \in Tasks :
        /\ urls[i] = UrlInosmi
        /\ "get_sanitizer" \in calls[i]
        /\ sanitized[i] # None
        /\ urls[j] = UrlExample
        /\ "get_sanitizer" \in calls[j]
        /\ article_info[j].title = Some("Statya na example.ru")

\* C13: when get_articles_analysis_results is over, by return or by
\* exception, every task it spawned has returned, raised or been
\* cancelled: none is fetching or tokenizing.
C13_AllTerminalAtReturn ==
    (pc \in {"responded", "raised"} \/ results # None \/ batch_exc # None)
    => \A i \in Tasks : /\ phase[i] \in {"returned", "raised", "cancelled"}
                        /\ phase[i] \notin {"fetching", "tokenizing"}

\* the call returned after a task that ended early and a task that ran into
\* the tokenize deadline
C13_Witness ==
    /\ pc = "responded"
    /\ results # None
    /\ Len(urls) = 2
    /\ StatusOf(1) = Some(PARSING_ERROR)
    /\ StatusOf(2) = Some(TIMEOUT)
    /\ ReachedTokenizing(2)

\* the number of separators in a query string
RECURSIVE CountCommas(_)
CountCommas(s) ==
    IF Len(s) = 0 THEN 0
    ELSE (IF Head(s) = Comma THEN 1 ELSE 0) + CountCommas(Tail(s))

\* C14: once the handler has taken the request, a missing or empty 'urls'
\* parameter has been answered with status 400 and the error payload and
\* no task or session exists; any other parameter has started one task per
\* comma separated item, at least one, and a JSON array that is returned
\* has one entry per item.
C14_BadRequest ==
    pc # "idle"
    => IF query = None \/ Len(query[1]) = 0
       THEN /\ pc = "responded"
            /\ response = Some([status |-> 400,
                                body |-> <<[error |-> "bad request"]>>])
            /\ urls = <<>>
            /\ phase = <<>>
            /\ session = "none"
            /\ results = None
       ELSE /\ Len(urls) = CountCommas(query[1]) + 1
            /\ Len(urls) >= 1
            /\ Len(phase) = Len(urls)
            /\ response # None
               => /\ response[1].status = 200
                  /\ Len(response[1].body) = CountCommas(query[1]) + 1

\* the empty string was sent and answered with 400
C14_Witness ==
    /\ query = Some(<<>>)
    /\ pc = "responded"
    /\ response # None
    /\ response[1].status = 400
    /\ urls = <<>>


\* the outer deadline had elapsed when the task entered the tokenizer
SanitizedPastDeadline(i) ==
    /\ tok_start[i] # None
    /\ tok_start[i][1] - started[i] >= resp_timeout

\* C15 as stated: a task for which the outer deadline elapsed while it was
\* fetching or sanitizing, before tokenizing started, returns the TIMEOUT
\* record with title 'Timeout Error'.
C15_DeadlineCoversSanitize ==
    \A i \in Tasks :
        (/\ phase[i] = "returned"
         /\ fetched[i] = None \/ SanitizedPastDeadline(i))
        => article_info[i] = OuterTimeoutRecord(urls[i])

\* C15 as amended: the outer deadline covers the pending fetch only.  A
\* task returns the 'Timeout Error' record exactly when the deadline
\* elapsed with fetch still pending; once fetch has returned a page, the
\* sanitize stage is never interrupted, and a task whose sanitizing ended
\* past the deadline went on into the tokenizer.
C15_DeadlineCoversFetchOnly ==
    \A i \in Tasks :
        /\ phase[i] = "returned"
           => /\ fetched[i] = None
                 <=> article_info[i].title = Some("Timeout Error")
              /\ fetched[i] = None
                 => article_info[i] = OuterTimeoutRecord(urls[i])
              /\ fetched[i] # None
                 => article_info[i] # OuterTimeoutRecord(urls[i])
        /\ SanitizedPastDeadline(i)
           => /\ "split_by_words" \in calls[i]
              /\ phase[i] \in {"tokenizing", "returned", "raised"}
              /\ phase[i] = "returned"
                 => /\ article_info[i].exec_time # None
                    /\ article_info[i].title = Some(sanitized[i][1].title)

\* sanitizing ended at the deadline and the task returned OK
C15_Witness ==
    \E i \in Tasks :
        /\ SanitizedPastDeadline(i)
        /\ phase[i] = "returned"
        /\ StatusOf(i) = Some(OK)

\* C16 as stated: no task is running once resp_timeout has elapsed since
\* its start.
C16_NothingRunsPastOuterDeadline ==
    \A i \in Tasks : Active(i) => now - started[i] <= resp_timeout

C16_TokenizingStep ==
    \A i \in Tasks :
        (phase[i] = "tokenizing" /\ phase'[i] # "tokenizing")
        => \/ /\ phase'[i] = "returned"
              /\ article_info'[i].title = Some(sanitized[i][1].title)
              /\ article_info'[i].title # Some("Timeout Error")
              /\ article_info'[i].exec_time = Some(now - tok_start[i][1])
              /\ IF now - tok_start[i][1] >= to
                 THEN article_info'[i].status = Some(TIMEOUT)
                 ELSE article_info'[i].status = Some(OK)
           \/ /\ phase'[i] = "raised"
              /\ \E j \in Tasks \ {i} : phase[j] = "fetching"
                                        /\ phase'[j] = "raised"

\* C16 as amended: the two deadlines are independent.  The outer timeout
\* block is left before tokenizing starts, so a tokenizing task is ended
\* only by its tokenizer returning, by the tokenize deadline counted from
\* the start of tokenizing, or by a failing sibling, never by the outer
\* deadline; it can be running after resp_timeout has elapsed.
C16_DeadlinesIndependent == [][C16_TokenizingStep]_vars

\* a task is tokenizing although resp_timeout has elapsed since its start
C16_Witness ==
    \E i \in Tasks :
        /\ phase[i] = "tokenizing"
        /\ now - started[i] > resp_timeout

\* the site key of the url is not registered
Unregistered(url) == Join(HostLabels(url), "_") \notin SANITIZERS

\* C17: get_sanitizer is called only after fetch returned a page; for an
\* unregistered url a fetch that raised gives FETCH_ERROR and a fetch that
\* outlasted the deadline gives TIMEOUT, never PARSING_ERROR; a
\* PARSING_ERROR task never entered the tokenizer.
C17_LookupAfterFetch ==
    \A i \in Tasks :
        /\ "get_sanitizer" \in calls[i]
           => fetched[i] # None /\ fetched[i][1] \in Htmls
        /\ (Unregistered(urls[i]) /\ fetched[i] # None
                                  /\ fetched[i][1] \in FetchExceptions)
           => phase[i] = "returned" /\ StatusOf(i) = Some(FETCH_ERROR)
        /\ (Unregistered(urls[i]) /\ phase[i] = "returned"
                                  /\ fetched[i] = None)
           => StatusOf(i) = Some(TIMEOUT)
        /\ (phase[i] = "returned" /\ StatusOf(i) = Some(PARSING_ERROR))
           => /\ fetched[i] # None /\ fetched[i][1] \in Htmls
              /\ tok_start[i] = None
              /\ "split_by_words" \notin calls[i]


\* C18: with time passing and timers firing, every started task reaches a
\* terminal state and the batch call returns or raises, although fetch and
\* split_by_words are free never to answer.
C18_Termination ==
    (pc = "nursery")
    ~> (/\ pc \in {"responded", "raised"}
        /\ \A i \in Tasks : phase[i] \in Terminal)

\* the batch answered although one fetch and one tokenizer call never did
C18_Witness ==
    /\ pc = "responded"
    /\ \E i \in Tasks : fetched[i] = None /\ StatusOf(i) = Some(TIMEOUT)
    /\ \E i \in Tasks : /\ measured[i] # None
                        /\ measured[i][1].err
                        /\ StatusOf(i) = Some(TIMEOUT)

C19_Raised ==
    pc = "raised"
    => /\ batch_exc # None
       /\ Failed # {}
       /\ \A i \in Tasks : phase[i] \in Terminal
       /\ Cardinality(Failed) = 1
          => /\ \A i \in Failed : batch_exc = task_exc[i]
             /\ batch_exc # Some("MultiError")
       /\ Cardinality(Failed) > 1 <=> batch_exc = Some("MultiError")

C19_FailStep ==
    \A i \in Tasks :
        (phase[i] = "fetching" /\ phase'[i] = "raised")
        => \A j \in Tasks \ {i} :
              /\ phase[j] = "fetching" => phase'[j] = "cancelled"
              /\ phase[j] = "tokenizing" => phase'[j] \in Terminal
              /\ phase[j] \in Terminal => phase'[j] = phase[j]

C20_SessionState ==
    /\ (\E i \in Tasks : Active(i)) => session = "open"
    /\ Tasks # {} => session # "none"
    /\ session = "closed"
       => /\ pc \in {"responded", "raised"}
          /\ \A i \in Tasks : phase[i] \in Terminal

C20_SessionStep ==
    session' # session
    => \/ session = "none" /\ session' = "open" /\ Tasks = {}
       \/ session = "open" /\ session' = "closed"

\* C20: one session is opened per batch, before its tasks exist, and it is
\* closed only when every task is terminal: no task is fetching or
\* tokenizing on a session that is not open, whether the batch returns or
\* raises.
C20_SessionOutlivesTasks == []C20_SessionState /\ [][C20_SessionStep]_vars

\* the batch raised and the session was closed after the cancelled fetch
C20_Witness ==
    /\ session = "closed"
    /\ pc = "raised"
    /\ \E i \in Tasks : phase[i] = "cancelled" /\ fetched[i] = None

====
